---- MODULE Spec2Model ----
(***************************************************************************)
(* QuantumLeapClient (filip/clients/ngsi_v2/quantumleap.py): the page loop *)
(* of __query_builder, the remote service it talks to, and the merge of    *)
(* the collected page bodies done by the query functions.                  *)
(*                                                                         *)
(* One behaviour is one call of one query function: the caller picks the   *)
(* function and its limit/offset arguments, the loop requests pages one at *)
(* a time, the service answers each request with a page body or a failure, *)
(* and the function merges the collected bodies into its result.           *)
(***************************************************************************)
EXTENDS Integers, Sequences, FiniteSets, TLC

\* ------------------------------------------------------------------ bounds
\* largest explicit limit argument the caller tries
MaxLimit == 11
\* the service holds data for at most this many successful pages per call
MaxPages == 3
\* a single-entity page is full (params['limit'] samples) or short: it
\* holds at most this many samples
MaxShortPage == 1
\* largest number of samples the service puts into one entity fragment
MaxFragLen == 2
\* throttling arguments range over -MaxThrottling..MaxThrottling
MaxThrottling == 2

\* ------------------------------------------------------- program constants
max_entries_per_request == 5
DefaultLimit == 10000

\* ------------------------------------------------------------------ values
\* Python's None where a string is expected
None == "<None>"

\* an optional integer argument: left out by the caller, None, or an integer
Omitted == [tag |-> "omitted", v |-> 0]
NoneArg == [tag |-> "none", v |-> 0]
IntArg(n) == [tag |-> "int", v |-> n]

\* the limit after normalisation: a number or math.inf
Inf == [inf |-> TRUE, n |-> 0]
Fin(n) == [inf |-> FALSE, n |-> n]

\* Python's  a < l  and  l > a  for an integer a and a limit l
LessThanLimit(a, l) == l.inf \/ a < l.n
LimitGreaterThan(l, a) == l.inf \/ l.n > a

\* the nine query functions
SingleFns == {"get_entity_by_id", "get_entity_values_by_id",
              "get_entity_attr_by_id", "get_entity_attr_values_by_id"}
TypeFns == {"get_entity_by_type", "get_entity_values_by_type",
            "get_entity_attr_by_type", "get_entity_attr_values_by_type"}
Fns == {"get_entities"} \cup SingleFns \cup TypeFns

\* what the caller may pass
LimitArgs == {Omitted, NoneArg} \cup {IntArg(n) : n \in 0..MaxLimit}
StartOffsets == {3, DefaultLimit - max_entries_per_request}
OffsetArgs == {NoneArg} \cup {IntArg(n) : n \in StartOffsets}

\* the arguments of the call the model follows
entity_id == "E1"
entity_type == "T"
attr_name == "temperature"

VARIABLES
    pc,           \* where the call is: idle, loop, sent, recv, built, done
    fn,           \* the query function called
    limitArg,     \* the limit argument as the caller gave it
    offsetArg,    \* the offset argument as the caller gave it
    kwargs,       \* the optional filter arguments the caller supplied
    limit,        \* __query_builder's local limit
    offset,       \* __query_builder's local offset
    params,       \* __query_builder's params dict
    list_of_res,  \* the page bodies collected so far
    requests,     \* the params of every GET issued by this call, in order
    resp,         \* the service's answer to the outstanding GET
    served,       \* the service: number of samples handed out so far
    log,          \* the service: its answer to every GET of the call, in order
    outcome,      \* none, returned or raised
    exc,          \* the exception the call raised
    result,       \* the value the call returned
    sub_pc,       \* post_subscription: idle, sent or done
    throttling,   \* post_subscription: its throttling argument
    sub_given,    \* post_subscription: the optional arguments that are set
    sub_params,   \* post_subscription: the keys of its params dict
    sub_posts,    \* post_subscription: number of POSTs it issued
    sub_exc,      \* post_subscription: the exception it raised
    sq_call,      \* query language: none, Statement or create_query
    sq_args,      \* query language: the arguments of the call
    sq_list,      \* query language: the caller's list after the call
    sq_result,    \* query language: the value the call returned
    sq_exc        \* query language: the exception the call raised

\* one call of a query function
qvars == <<pc, fn, limitArg, offsetArg, kwargs, limit, offset, params,
           list_of_res, requests, resp, served, log, outcome, exc, result>>
\* one call of post_subscription
subvars == <<sub_pc, throttling, sub_given, sub_params, sub_posts, sub_exc>>
\* one call of Statement or create_query
sqvars == <<sq_call, sq_args, sq_list, sq_result, sq_exc>>

vars == <<qvars, subvars, sqvars>>

NoResp == [kind |-> "none", status |-> 0, error |-> None, body |-> <<>>]
NoResult == <<>>

Init ==
    /\ pc = "idle"
    /\ fn = "get_entities"
    /\ limitArg = Omitted
    /\ offsetArg = NoneArg
    /\ limit = Inf
    /\ offset = 0
    /\ params = <<>>
    /\ kwargs = {}
    /\ list_of_res = <<>>
    /\ requests = <<>>
    /\ resp = NoResp
    /\ served = 0
    /\ log = <<>>
    /\ outcome = "none"
    /\ exc = "none"
    /\ result = NoResult
    /\ sub_pc = "idle"
    /\ throttling = NoneArg
    /\ sub_given = {}
    /\ sub_params = {}
    /\ sub_posts = 0
    /\ sub_exc = "none"
    /\ sq_call = "none"
    /\ sq_args = <<>>
    /\ sq_list = <<>>
    /\ sq_result = <<>>
    /\ sq_exc = "none"

\* the elements of a sequence
Range(s) == {s[i] : i \in 1..Len(s)}

\* ------------------------------------------------------------ the service
\* Get(d, k): Python's d.get(k)
Get(d, k) == IF k \in DOMAIN d THEN d[k] ELSE None

\* timestamps are handed out in increasing order; the value of attribute
\* number a at timestamp t is t * 10 + a
Index(base, n) == [i \in 1..n |-> base + i]
ValuesOf(a, index) == [i \in 1..Len(index) |-> index[i] * 10 + a]
AttrNames == <<"temperature", "humidity">>
Attributes(index) ==
    [a \in 1..Len(AttrNames) |->
        [attrName |-> AttrNames[a], values |-> ValuesOf(a, index)]]

\* the entities a by-type page may list, in the order it lists them
EntityOrders == {<<"E1", "E2">>, <<"E2", "E1">>, <<"E1">>,
                 <<"E1", "E2", "E3">>}

\* fragment j of a by-type page whose fragments hold n samples each
FragIndex(base, n, j) == Index(base + (j - 1) * n, n)

\* body of one page of /v2/entities: n headers
EntitiesBody(base, n) ==
    [i \in 1..n |-> [entityId |-> base + i, entityType |-> entity_type,
                     index |-> base + i]]

\* body of one page of a single-entity endpoint holding n samples
SingleBody(f, base, n) ==
    CASE f = "get_entity_by_id" ->
           [entityId |-> entity_id, index |-> Index(base, n),
            attributes |-> Attributes(Index(base, n))]
      [] f = "get_entity_values_by_id" ->
           [index |-> Index(base, n),
            attributes |-> Attributes(Index(base, n))]
      [] f = "get_entity_attr_by_id" ->
           [entityId |-> entity_id, attrName |-> attr_name,
            index |-> Index(base, n),
            values |-> ValuesOf(1, Index(base, n))]
      [] f = "get_entity_attr_values_by_id" ->
           [index |-> Index(base, n),
            values |-> ValuesOf(1, Index(base, n))]

\* body of one page of a by-type endpoint: one fragment per listed entity
TypeBody(f, base, n, order) ==
    CASE f = "get_entity_by_type" ->
           [entityType |-> entity_type,
            entities |-> [j \in 1..Len(order) |->
                [entityId |-> order[j], index |-> FragIndex(base, n, j),
                 attributes |-> Attributes(FragIndex(base, n, j))]]]
      [] f = "get_entity_values_by_type" ->
           [values |-> [j \in 1..Len(order) |->
                [entityId |-> order[j], index |-> FragIndex(base, n, j),
                 attributes |-> Attributes(FragIndex(base, n, j))]]]
      [] f = "get_entity_attr_by_type" ->
           [entityType |-> entity_type, attrName |-> attr_name,
            entities |-> [j \in 1..Len(order) |->
                [entityId |-> order[j], index |-> FragIndex(base, n, j),
                 values |-> ValuesOf(1, FragIndex(base, n, j))]]]
      [] f = "get_entity_attr_values_by_type" ->
           [values |-> [j \in 1..Len(order) |->
                [entityId |-> order[j], index |-> FragIndex(base, n, j),
                 values |-> ValuesOf(1, FragIndex(base, n, j))]]]

\* the numbers of results a page asked for with limit pl may hold
PageLens(pl) == {n \in 0..pl : n <= MaxShortPage \/ n = pl}

\* the service answers the outstanding GET with a page of a single-entity
\* endpoint or of /v2/entities, holding at most params['limit'] results
RespondPage ==
    /\ pc = "sent"
    /\ fn \notin TypeFns
    /\ Len(list_of_res) < MaxPages
    /\ \E n \in PageLens(params.limit) :
          /\ resp' = [kind |-> "ok", status |-> 200, error |-> None,
                      body |-> IF fn = "get_entities"
                                 THEN EntitiesBody(served, n)
                                 ELSE SingleBody(fn, served, n)]
          /\ served' = served + n
    /\ log' = Append(log, resp')
    /\ pc' = "recv"
    /\ UNCHANGED <<fn, kwargs, limitArg, offsetArg, limit, offset, params,
                   list_of_res, requests, outcome, exc, result>>
    /\ UNCHANGED <<subvars, sqvars>>

\* the service answers the outstanding GET with a page of a by-type endpoint
RespondTypePage ==
    /\ pc = "sent"
    /\ fn \in TypeFns
    /\ Len(list_of_res) < MaxPages
    /\ \E order \in EntityOrders, n \in 1..MaxFragLen :
          /\ n * Len(order) <= params.limit
          /\ resp' = [kind |-> "ok", status |-> 200, error |-> None,
                      body |-> TypeBody(fn, served, n, order)]
          /\ served' = served + n * Len(order)
    /\ log' = Append(log, resp')
    /\ pc' = "recv"
    /\ UNCHANGED <<fn, kwargs, limitArg, offsetArg, limit, offset, params,
                   list_of_res, requests, outcome, exc, result>>
    /\ UNCHANGED <<subvars, sqvars>>

\* the service answers with an HTTP error status and a JSON error body
ErrorStatuses == {404, 500}
ErrorFields == {"Not Found", "Internal Server Error"}
RespondHttpError ==
    /\ pc = "sent"
    /\ \E status \in ErrorStatuses, error \in ErrorFields :
          resp' = [kind |-> "http", status |-> status, error |-> error,
                   body |-> <<>>]
    /\ log' = Append(log, resp')
    /\ pc' = "recv"
    /\ UNCHANGED <<fn, kwargs, limitArg, offsetArg, limit, offset, params,
                   list_of_res, requests, served, outcome, exc, result>>
    /\ UNCHANGED <<subvars, sqvars>>

\* the GET fails below HTTP: the exception carries no response
RespondNetworkError ==
    /\ pc = "sent"
    /\ resp' = [kind |-> "network", status |-> 0, error |-> None,
                body |-> <<>>]
    /\ log' = Append(log, resp')
    /\ pc' = "recv"
    /\ UNCHANGED <<fn, kwargs, limitArg, offsetArg, limit, offset, params,
                   list_of_res, requests, served, outcome, exc, result>>
    /\ UNCHANGED <<subvars, sqvars>>

\* ------------------------------------------------------- __query_builder
\* the limit a query function hands to __query_builder when the caller
\* leaves it out: get_entity_by_id declares limit=10000, the others None
PassedLimit(f, la) ==
    IF la.tag = "omitted"
      THEN IF f = "get_entity_by_id" THEN IntArg(DefaultLimit) ELSE NoneArg
      ELSE la

\* a normalisation that gives an unset limit the documented default
NormLimit_Documented(la) ==
    IF la.tag = "none" THEN Fin(DefaultLimit) ELSE Fin(la.v)

\* a builder that takes every falsy limit, 0 included, for no limit
NormLimit_Falsy(la) ==
    IF la.tag = "none" \/ la.v = 0 THEN Inf ELSE Fin(la.v)

\* if limit is None: limit = inf
NormLimit(la) == IF la.tag = "none" THEN Inf ELSE Fin(la.v)

\* a builder that always starts at the first result
NormOffset_Ignored(oa) == 0

\* if offset is None: offset = 0
NormOffset(oa) == IF oa.tag = "int" THEN oa.v ELSE 0

\* a builder that sends the caller's limit as it is
PageLimit_AsGiven(l) == l.n

\* params['limit']: max_entries_per_request when limit exceeds it
PageLimit(l) ==
    IF LimitGreaterThan(l, max_entries_per_request)
      THEN max_entries_per_request
      ELSE l.n

\* the optional keyword arguments of the query functions, the value the
\* caller gives each one it supplies, and the params key
\* __query_builder files it under
KwargNames ==
    {"options", "entity_type", "aggr_method", "aggr_period", "from_date",
     "to_date", "last_n", "georel", "coords", "geometry", "attrs",
     "aggr_scope", "entity_id"}
KwargValue ==
    [options |-> "keyValues", entity_type |-> entity_type,
     aggr_method |-> "avg", aggr_period |-> "hour",
     from_date |-> "2026-01-01", to_date |-> "2026-02-01", last_n |-> 3,
     georel |-> "near", coords |-> "0,0", geometry |-> "point",
     attrs |-> attr_name, aggr_scope |-> "entity", entity_id |-> entity_id]
ParamKey ==
    [options |-> "options", entity_type |-> "type",
     aggr_method |-> "aggrMethod", aggr_period |-> "aggrPeriod",
     from_date |-> "fromDate", to_date |-> "toDate", last_n |-> "lastN",
     georel |-> "georel", coords |-> "coords", geometry |-> "geometry",
     attrs |-> "attrs", aggr_scope |-> "aggr_scope", entity_id |-> "id"]

\* the keyword arguments query function f hands to __query_builder
CommonNames ==
    {"options", "aggr_method", "aggr_period", "from_date", "to_date",
     "last_n", "georel", "geometry", "coords"}
PassedNames(f) ==
    CASE f = "get_entities" -> {"entity_type", "from_date", "to_date"}
      [] f \in {"get_entity_by_id", "get_entity_values_by_id"} ->
           CommonNames \cup {"attrs", "entity_type"}
      [] f = "get_entity_attr_by_id" ->
           CommonNames \cup {"entity_id", "entity_type"}
      [] f = "get_entity_attr_values_by_id" ->
           CommonNames \cup {"entity_type"}
      [] f = "get_entity_by_type" ->
           CommonNames \cup {"entity_id", "attrs", "aggr_scope"}
      [] f = "get_entity_values_by_type" ->
           CommonNames \cup {"entity_id", "attrs", "entity_type",
                             "aggr_scope"}
      [] OTHER ->
           CommonNames \cup {"entity_id", "entity_type", "aggr_scope"}

\* the arguments f cannot be called without
RequiredNames(f) ==
    IF f \in SingleFns THEN {"entity_id"}
    ELSE IF f \in TypeFns THEN {"entity_type"}
    ELSE {}

\* the keyword arguments that reach __query_builder with a value
Supplied(f, kw) == PassedNames(f) \cap (kw \cup RequiredNames(f))

\* params as the tests `if options:` .. `if entity_id:` and the limit
\* test leave it
BuildParams(f, kw, l) ==
    [k \in {ParamKey[n] : n \in Supplied(f, kw)} \cup {"limit"} |->
        IF k = "limit" THEN PageLimit(l)
        ELSE KwargValue[CHOOSE n \in Supplied(f, kw) : ParamKey[n] = k]]

\* a dict holding only the two pagination keys
SetOffset_Fresh(p, o) == [limit |-> p.limit, offset |-> o]

\* params['offset'] = offset
SetOffset(p, o) ==
    [k \in (DOMAIN p) \cup {"offset"} |-> IF k = "offset" THEN o ELSE p[k]]


\* the caller calls query function f; __query_builder runs up to its loop
CallWith(las, oas, kws) ==
    /\ pc = "idle"
    /\ \E f \in Fns, la \in las, oa \in oas, kw \in kws :
          /\ fn' = f
          /\ limitArg' = la
          /\ offsetArg' = oa
          /\ kwargs' = kw
          /\ limit' = NormLimit(PassedLimit(f, la))
          /\ offset' = NormOffset(oa)
          /\ params' = BuildParams(f, kw, NormLimit(PassedLimit(f, la)))
    /\ list_of_res' = <<>>
    /\ pc' = "loop"
    /\ UNCHANGED <<log, requests, resp, served, outcome, exc, result>>
    /\ UNCHANGED <<subvars, sqvars>>

\* a call that supplies none of the optional filter arguments
Call == CallWith(LimitArgs, OffsetArgs, {{}})

\* a loop that still runs when the offset has reached the limit
LoopCond_Inclusive(o, l) == l.inf \/ o <= l.n

\* while offset < limit
LoopCond(o, l) == LessThanLimit(o, l)

\* a loop that counts pages instead of entries
NextOffset_PageCount(o) == o + 1

\* a loop that forgets to advance
NextOffset_Stuck(o) == o

\* a loop that advances by two pages
NextOffset_TwoPages(o) == o + 2 * max_entries_per_request

\* offset = offset + max_entries_per_request
NextOffset(o) == o + max_entries_per_request

\* the loop condition holds: params['offset'] = offset; self.get(...)
Request ==
    /\ pc = "loop"
    /\ LoopCond(offset, limit)
    /\ params' = SetOffset(params, offset)
    /\ requests' = Append(requests, params')
    /\ pc' = "sent"
    /\ UNCHANGED <<log, fn, kwargs, limitArg, offsetArg, limit, offset, list_of_res,
                   resp, served, outcome, exc, result>>
    /\ UNCHANGED <<subvars, sqvars>>

\* the loop condition fails: __query_builder returns list_of_res
LoopExit ==
    /\ pc = "loop"
    /\ ~LoopCond(offset, limit)
    /\ pc' = "built"
    /\ UNCHANGED <<log, fn, kwargs, limitArg, offsetArg, limit, offset,
                   params, list_of_res, requests, resp, served, outcome, exc, result>>
    /\ UNCHANGED <<subvars, sqvars>>

\* res.ok: the body is appended and the offset advances
AppendPage ==
    /\ pc = "recv"
    /\ resp.kind = "ok"
    /\ list_of_res' = Append(list_of_res, resp.body)
    /\ offset' = NextOffset(offset)
    /\ resp' = NoResp
    /\ pc' = "loop"
    /\ UNCHANGED <<log, fn, kwargs, limitArg, offsetArg, limit, params,
                   requests, served, outcome, exc, result>>
    /\ UNCHANGED <<subvars, sqvars>>

\* an except clause that forgets to ask for an earlier page
IsSentinel_NoEarlierPage(r, collected) ==
    /\ r.status = 404
    /\ r.error = "Not Found"

\* an except clause that takes every 404 for the end of the data
IsSentinel_Any404(r, collected) ==
    /\ r.status = 404
    /\ Len(collected) > 0

\* an except clause that looks at the error field only
IsSentinel_AnyStatus(r, collected) ==
    /\ r.error = "Not Found"
    /\ Len(collected) > 0

\* the condition of the except clause under which the loop breaks
IsSentinel(r, collected) ==
    /\ r.status = 404
    /\ r.error = "Not Found"
    /\ Len(collected) > 0

\* an except clause that logs a failure and lets the loop go on
AfterFailure_Swallowed(sentinel) == IF sentinel THEN "built" ELSE "loop"

\* where the except clause leaves the call: break ends the loop, raise
\* ends the call
AfterFailure(sentinel) == IF sentinel THEN "built" ELSE "done"

\* except RequestException: an HTTP error status was raised by
\* raise_for_status; the sentinel breaks the loop, anything else is re-raised
HandleHttpError ==
    /\ pc = "recv"
    /\ resp.kind = "http"
    /\ pc' = AfterFailure(IsSentinel(resp, list_of_res))
    /\ IF IsSentinel(resp, list_of_res)
         THEN /\ UNCHANGED <<outcome, exc>>
         ELSE /\ outcome' = "raised"
              /\ exc' = "HTTPError"
    /\ resp' = NoResp
    /\ UNCHANGED <<log, fn, kwargs, limitArg, offsetArg, limit, offset,
                   params, list_of_res, requests, served, result>>
    /\ UNCHANGED <<subvars, sqvars>>

\* except RequestException: err.response is None, so reading
\* err.response.status_code raises AttributeError out of the handler
HandleNetworkError ==
    /\ pc = "recv"
    /\ resp.kind = "network"
    /\ pc' = "done"
    /\ outcome' = "raised"
    /\ exc' = "AttributeError"
    /\ resp' = NoResp
    /\ UNCHANGED <<log, fn, kwargs, limitArg, offsetArg, limit, offset,
                   params, list_of_res, requests, served, result>>
    /\ UNCHANGED <<subvars, sqvars>>

\* ------------------------------------------------------------- TimeSeries
TimeSeries(eid, etype, index, attributes) ==
    [entityId |-> eid, entityType |-> etype, index |-> index,
     attributes |-> attributes]

AttributeValues(name, values) == [attrName |-> name, values |-> values]

\* the values other holds for the attribute called name
MatchingValues(other, name) ==
    LET S == {j \in DOMAIN other.attributes :
                 other.attributes[j].attrName = name}
    IN  IF S = {} THEN <<>>
        ELSE other.attributes[CHOOSE j \in S : \A k \in S : j <= k].values

\* TimeSeries.extend: other's index entries and each matching attribute's
\* values are appended to self
extend(self, other) ==
    [entityId |-> self.entityId,
     entityType |-> self.entityType,
     index |-> self.index \o other.index,
     attributes |-> [i \in DOMAIN self.attributes |->
        AttributeValues(self.attributes[i].attrName,
                        self.attributes[i].values \o
                          MatchingValues(other, self.attributes[i].attrName))]]

\* a loop that extends with the last page first
RECURSIVE ExtendAll_Backwards(_, _)
ExtendAll_Backwards(res, items) ==
    IF Len(items) = 0 THEN res
    ELSE extend(ExtendAll_Backwards(res, Tail(items)), Head(items))

\* res = first; for item in rest: res.extend(item)
RECURSIVE ExtendAll(_, _)
ExtendAll(res, items) ==
    IF Len(items) = 0 THEN res
    ELSE ExtendAll(extend(res, Head(items)), Tail(items))

\* a zip loop that extends every series with the chunk's first fragment
ZipExtend_FirstFragment(chunk, res) ==
    [i \in 1..Len(res) |->
        IF i <= Len(chunk) THEN extend(res[i], chunk[1]) ELSE res[i]]

\* a merge keyed by entity identity instead of position
ZipExtend_ByEntityId(chunk, res) ==
    [i \in 1..Len(res) |->
        LET S == {j \in 1..Len(chunk) : chunk[j].entityId = res[i].entityId}
        IN  IF S = {} THEN res[i]
            ELSE extend(res[i], chunk[CHOOSE j \in S : TRUE])]

\* a loop that also keeps the fragments for which res has no series yet
ZipExtend_Longest(chunk, res) ==
    [i \in 1..(IF Len(chunk) > Len(res) THEN Len(chunk) ELSE Len(res)) |->
        IF i > Len(res) THEN chunk[i]
        ELSE IF i <= Len(chunk) THEN extend(res[i], chunk[i]) ELSE res[i]]

\* for new, old in zip(chunk, res): old.extend(new)
ZipExtend(chunk, res) ==
    [i \in 1..Len(res) |->
        IF i <= Len(chunk) THEN extend(res[i], chunk[i]) ELSE res[i]]

\* for chunk in chunks: zip-extend res with it
RECURSIVE MergeChunks(_, _)
MergeChunks(res, chunks) ==
    IF Len(chunks) = 0 THEN res
    ELSE MergeChunks(ZipExtend(Head(chunks), res), Tail(chunks))

\* -------------------------------------------------- the query functions
\* parse_obj_as(List[TimeSeriesHeader], res[0])
merge_entities(l) == l[1]

\* TimeSeries.parse_obj(item)
ParseTimeSeries(item) ==
    TimeSeries(Get(item, "entityId"), Get(item, "entityType"),
               item.index, item.attributes)

\* a merge that stops after the first chunk
merge_entity_by_id_FirstChunk(l) == ParseTimeSeries(l[1])

merge_entity_by_id(l) ==
    ExtendAll(ParseTimeSeries(l[1]),
              [k \in 1..Len(l) - 1 |-> ParseTimeSeries(l[k + 1])])

\* TimeSeries(entityId=entity_id, **item)
ValuesTimeSeries(item) ==
    TimeSeries(entity_id, Get(item, "entityType"), item.index,
               item.attributes)

merge_entity_values_by_id(l) ==
    ExtendAll(ValuesTimeSeries(l[1]),
              [k \in 1..Len(l) - 1 |-> ValuesTimeSeries(l[k + 1])])

\* TimeSeries(entityId=entity_id, index=item.get('index'),
\*            attributes=[AttributeValues(**item)])
AttrTimeSeries(item) ==
    TimeSeries(entity_id, None, item.index,
               <<AttributeValues(item.attrName, item.values)>>)

merge_entity_attr_by_id(l) ==
    ExtendAll(AttrTimeSeries(l[1]),
              [k \in 1..Len(l) - 1 |-> AttrTimeSeries(l[k + 1])])

\* TimeSeries(entityId=entity_id, index=item.get('index'),
\*   attributes=[AttributeValues(attrName=attr_name,
\*                               values=item.get('values'))])
AttrValuesTimeSeries(item) ==
    TimeSeries(entity_id, None, item.index,
               <<AttributeValues(attr_name, item.values)>>)

merge_entity_attr_values_by_id(l) ==
    ExtendAll(AttrValuesTimeSeries(l[1]),
              [k \in 1..Len(l) - 1 |-> AttrValuesTimeSeries(l[k + 1])])

\* the field of a by-type page that lists the fragments
ListField(f) ==
    IF f \in {"get_entity_by_type", "get_entity_attr_by_type"}
    THEN "entities" ELSE "values"

\* a read that supplies an empty list for a missing field
Fragments_OrEmpty(f, chunk) ==
    [none |-> FALSE,
     v |-> IF ListField(f) \in DOMAIN chunk THEN chunk[ListField(f)]
           ELSE <<>>]

\* chunk.get('entities'), chunk.get('values'): None when the field is
\* missing
Fragments(f, chunk) ==
    IF ListField(f) \in DOMAIN chunk
    THEN [none |-> FALSE, v |-> chunk[ListField(f)]]
    ELSE [none |-> TRUE, v |-> <<>>]

\* TimeSeries(entityType=entity_type, **item)
TypeTimeSeries(item) ==
    TimeSeries(Get(item, "entityId"), entity_type, item.index,
               item.attributes)

EntitiesChunk(chunk) ==
    LET items == Fragments("get_entity_by_type", chunk).v
    IN  [i \in 1..Len(items) |-> TypeTimeSeries(items[i])]
merge_entity_by_type(l) ==
    MergeChunks(EntitiesChunk(l[1]),
                [k \in 1..Len(l) - 1 |-> EntitiesChunk(l[k + 1])])

ValuesChunk(chunk) ==
    LET items == Fragments("get_entity_values_by_type", chunk).v
    IN  [i \in 1..Len(items) |-> TypeTimeSeries(items[i])]
merge_entity_values_by_type(l) ==
    MergeChunks(ValuesChunk(l[1]),
                [k \in 1..Len(l) - 1 |-> ValuesChunk(l[k + 1])])

\* series that take the values of all fragments of the chunk together
AttrChunk_ChunkValues(chunk) ==
    LET items == Fragments("get_entity_attr_by_type", chunk).v
    IN  [i \in 1..Len(items) |->
            TimeSeries(items[i].entityId, entity_type, items[i].index,
                       <<AttributeValues(chunk.attrName,
                            items[1].values \o items[Len(items)].values)>>)]

\* the fragments of chunk, each with the chunk's own attrName
AttrChunk(chunk) ==
    LET items == Fragments("get_entity_attr_by_type", chunk).v
    IN  [i \in 1..Len(items) |->
            TimeSeries(items[i].entityId, entity_type, items[i].index,
                       <<AttributeValues(chunk.attrName, items[i].values)>>)]
merge_entity_attr_by_type(l) ==
    MergeChunks(AttrChunk(l[1]),
                [k \in 1..Len(l) - 1 |-> AttrChunk(l[k + 1])])

AttrValuesChunk(chunk) ==
    LET items == Fragments("get_entity_attr_values_by_type", chunk).v
    IN  [i \in 1..Len(items) |->
            TimeSeries(items[i].entityId, entity_type, items[i].index,
                       <<AttributeValues(attr_name, items[i].values)>>)]
merge_entity_attr_values_by_type(l) ==
    MergeChunks(AttrValuesChunk(l[1]),
                [k \in 1..Len(l) - 1 |-> AttrValuesChunk(l[k + 1])])

\* what query function f makes of the collected pages
Merged(f, l) ==
    CASE f = "get_entities" -> merge_entities(l)
      [] f = "get_entity_by_id" -> merge_entity_by_id(l)
      [] f = "get_entity_values_by_id" -> merge_entity_values_by_id(l)
      [] f = "get_entity_attr_by_id" -> merge_entity_attr_by_id(l)
      [] f = "get_entity_attr_values_by_id" ->
           merge_entity_attr_values_by_id(l)
      [] f = "get_entity_by_type" -> merge_entity_by_type(l)
      [] f = "get_entity_values_by_type" -> merge_entity_values_by_type(l)
      [] f = "get_entity_attr_by_type" -> merge_entity_attr_by_type(l)
      [] f = "get_entity_attr_values_by_type" ->
           merge_entity_attr_values_by_type(l)

\* the fields a TimeSeries and its AttributeValues cannot be built
\* without, as query function f passes them from a page (single-entity
\* shapes) or from a fragment (by-type shapes); entityId and entityType
\* are optional
RequiredFields(f) ==
    CASE f \in {"get_entity_by_id", "get_entity_values_by_id",
                "get_entity_by_type", "get_entity_values_by_type"} ->
           {"index", "attributes"}
      [] f = "get_entity_attr_by_id" -> {"index", "attrName", "values"}
      [] f = "get_entity_attr_values_by_id" -> {"index", "values"}
      [] f \in {"get_entity_attr_by_type",
                "get_entity_attr_values_by_type"} -> {"index", "values"}
      [] OTHER -> {}

\* building the TimeSeries from item raises a validation error
Invalid(f, item) == \E k \in RequiredFields(f) : k \notin DOMAIN item

\* the exception that building the series of one page raises, "none"
\* when they are built
PageError(f, chunk) ==
    IF f = "get_entities" THEN "none"
    ELSE IF f \in SingleFns
    THEN IF Invalid(f, chunk) THEN "ValidationError" ELSE "none"
    ELSE IF Fragments(f, chunk).none THEN "TypeError"
    ELSE IF \E i \in 1..Len(Fragments(f, chunk).v) :
               \/ Invalid(f, Fragments(f, chunk).v[i])
               \/ f = "get_entity_attr_by_type" /\ "attrName" \notin DOMAIN chunk
    THEN "ValidationError"
    ELSE "none"

\* the exception merging the pages raises: that of the first page whose
\* series cannot be built
MergeError(f, l) ==
    LET bad == {k \in 1..Len(l) : PageError(f, l[k]) # "none"}
    IN  IF bad = {} THEN "none"
        ELSE PageError(f, l[CHOOSE k \in bad : \A j \in bad : k <= j])

\* __query_builder returned at least one page: the function merges the
\* pages and returns
Return ==
    /\ pc = "built"
    /\ Len(list_of_res) > 0
    /\ MergeError(fn, list_of_res) = "none"
    /\ result' = Merged(fn, list_of_res)
    /\ outcome' = "returned"
    /\ pc' = "done"
    /\ UNCHANGED <<log, fn, kwargs, limitArg, offsetArg, limit, offset,
                   params, list_of_res, requests, resp, served, exc>>
    /\ UNCHANGED <<subvars, sqvars>>

\* __query_builder returned no page: list_of_res[0] raises IndexError
RaiseIndexError ==
    /\ pc = "built"
    /\ Len(list_of_res) = 0
    /\ outcome' = "raised"
    /\ exc' = "IndexError"
    /\ pc' = "done"
    /\ UNCHANGED <<log, fn, kwargs, limitArg, offsetArg, limit, offset,
                   params, list_of_res, requests, resp, served, result>>
    /\ UNCHANGED <<subvars, sqvars>>

Next ==
    \/ Call
    \/ Request
    \/ LoopExit
    \/ RespondPage
    \/ RespondTypePage
    \/ RespondHttpError
    \/ RespondNetworkError
    \/ AppendPage
    \/ HandleHttpError
    \/ HandleNetworkError
    \/ Return
    \/ RaiseIndexError

Spec == Init /\ [][Next]_vars

\* ------------------------------------------------ calls that pass filters
\* the filter arguments a call may supply: none, any one, or all
KwargChoices == {{}} \cup {{n} : n \in KwargNames} \cup {KwargNames}
FilterLimitArgs == {IntArg(0), IntArg(max_entries_per_request + 1)}

\* a call that supplies optional filter arguments
CallFiltered == CallWith(FilterLimitArgs, {NoneArg}, KwargChoices)

NextFilters ==
    \/ CallFiltered
    \/ Request
    \/ LoopExit
    \/ RespondPage
    \/ RespondTypePage
    \/ RespondHttpError
    \/ RespondNetworkError
    \/ AppendPage
    \/ HandleHttpError
    \/ HandleNetworkError
    \/ Return
    \/ RaiseIndexError

SpecFilters == Init /\ [][NextFilters]_vars

\* ------------------------------------------------------ overlapping pages
\* the service answers the outstanding GET of a single-entity endpoint
\* with a page that starts with the sample the previous page ended with
RespondOverlappingPage ==
    /\ pc = "sent"
    /\ fn \in SingleFns
    /\ Len(list_of_res) < MaxPages
    /\ served >= 1
    /\ \E n \in PageLens(params.limit) \ {0} :
          /\ resp' = [kind |-> "ok", status |-> 200, error |-> None,
                      body |-> SingleBody(fn, served - 1, n)]
          /\ served' = served - 1 + n
    /\ log' = Append(log, resp')
    /\ pc' = "recv"
    /\ UNCHANGED <<fn, kwargs, limitArg, offsetArg, limit, offset, params,
                   list_of_res, requests, outcome, exc, result>>
    /\ UNCHANGED <<subvars, sqvars>>

NextOverlap ==
    \/ Next
    \/ RespondOverlappingPage

SpecOverlap == Init /\ [][NextOverlap]_vars

\* ------------------------------------------------- pages that lack a field
\* record d without field k
Without(d, k) == [x \in (DOMAIN d) \ {k} |-> d[x]]

\* the fields a page may lack
PageFields == {"index", "values", "attributes", "attrName", "entities"}

\* the page of query function f with one field dropped: from the page
\* itself or from its first fragment
DefectivePages(f) ==
    LET full == IF f \in SingleFns THEN SingleBody(f, served, 1)
                ELSE TypeBody(f, served, 1, <<"E1", "E2">>)
        items == Fragments(f, full).v
    IN  {Without(full, k) : k \in PageFields \cap DOMAIN full}
          \cup (IF f \in SingleFns THEN {}
                ELSE {[full EXCEPT ![ListField(f)] =
                         [items EXCEPT ![1] = Without(items[1], k)]] :
                      k \in PageFields \cap DOMAIN items[1]})

\* the service answers the outstanding GET with a page that lacks a field
RespondDefectivePage ==
    /\ pc = "sent"
    /\ fn # "get_entities"
    /\ Len(list_of_res) < MaxPages
    /\ \A k \in 1..Len(list_of_res) : PageError(fn, list_of_res[k]) = "none"
    /\ (fn \in TypeFns) => params.limit >= 2
    /\ \E body \in DefectivePages(fn) :
          resp' = [kind |-> "ok", status |-> 200, error |-> None,
                   body |-> body]
    /\ served' = served + (IF fn \in SingleFns THEN 1 ELSE 2)
    /\ log' = Append(log, resp')
    /\ pc' = "recv"
    /\ UNCHANGED <<fn, kwargs, limitArg, offsetArg, limit, offset, params,
                   list_of_res, requests, outcome, exc, result>>
    /\ UNCHANGED <<subvars, sqvars>>

\* a client that builds the series of each page as soon as it is appended
RaiseMergeError_InLoop ==
    /\ pc \in {"loop", "built"}
    /\ Len(list_of_res) > 0
    /\ MergeError(fn, list_of_res) # "none"
    /\ outcome' = "raised"
    /\ exc' = MergeError(fn, list_of_res)
    /\ pc' = "done"
    /\ UNCHANGED <<log, fn, kwargs, limitArg, offsetArg, limit, offset,
                   params, list_of_res, requests, resp, served, result>>
    /\ UNCHANGED <<subvars, sqvars>>

\* __query_builder returned the pages, and building or merging their
\* series raises
RaiseMergeError ==
    /\ pc = "built"
    /\ Len(list_of_res) > 0
    /\ MergeError(fn, list_of_res) # "none"
    /\ outcome' = "raised"
    /\ exc' = MergeError(fn, list_of_res)
    /\ pc' = "done"
    /\ UNCHANGED <<log, fn, kwargs, limitArg, offsetArg, limit, offset,
                   params, list_of_res, requests, resp, served, result>>
    /\ UNCHANGED <<subvars, sqvars>>

NextDefect ==
    \/ Next
    \/ RespondDefectivePage
    \/ RaiseMergeError

SpecDefect == Init /\ [][NextDefect]_vars

\* ------------------------------------------------------------ properties
Last(s) == s[Len(s)]
IsOk(r) == r.kind = "ok"
IsNotFound(r) == r.kind = "http" /\ r.status = 404 /\ r.error = "Not Found"

\* the bodies of the pages the service delivered, in the order of the GETs
OkBodies == LET ok == SelectSeq(log, IsOk)
            IN  [i \in 1..Len(ok) |-> ok[i].body]

\* the call is past its page loop
LoopOver == pc \in {"built", "done"}

\* the last GET failed and the failure is the end-of-data sentinel
SentinelLast == Len(log) >= 2 /\ IsNotFound(Last(log))

\* C1: a 404 'Not Found' on page 2 or later ends the page loop without
\* raising and the loop returns exactly the pages delivered before it, in
\* fetch order; a 404 'Not Found' on the first page raises and the call
\* returns nothing
C1_SentinelStop ==
    (LoopOver /\ Len(log) > 0 /\ IsNotFound(Last(log))) =>
        IF Len(log) >= 2
          THEN /\ outcome # "raised"
               /\ list_of_res = OkBodies
               /\ Len(list_of_res) = Len(log) - 1
          ELSE /\ pc = "done"
               /\ outcome = "raised"
               /\ exc = "HTTPError"
               /\ Len(list_of_res) = 0

\* a call that returned after two pages and the sentinel
C1_Witness ==
    /\ pc = "done"
    /\ outcome = "returned"
    /\ Len(log) = 3
    /\ IsNotFound(Last(log))
    /\ Len(list_of_res) = 2

\* C2: a failed GET that is not the sentinel makes the call raise at once:
\* nothing is returned whatever was collected before, the failed GET is the
\* last one of the call, and no offset was requested twice
C2_FatalAborts ==
    (pc # "recv" /\ Len(log) > 0 /\ ~IsOk(Last(log)) /\ ~SentinelLast) =>
        /\ pc = "done"
        /\ outcome = "raised"
        /\ exc \in {"HTTPError", "AttributeError"}
        /\ Len(requests) = Len(log)
        /\ \A i, j \in 1..Len(requests) :
              i < j => requests[i].offset # requests[j].offset

\* a call that raised on its third GET, two pages having been collected
C2_Witness ==
    /\ pc = "done"
    /\ outcome = "raised"
    /\ Len(list_of_res) = 2
    /\ Len(log) = 3
    /\ Last(log).kind = "http"
    /\ Last(log).status = 404
    /\ Last(log).error # "Not Found"

\* every GET of the call was answered with a page
AllOk == Len(log) = Len(requests) /\ \A i \in 1..Len(log) : IsOk(log[i])

\* C3: with limit = k * 5 + r, r > 0, the default offset and every GET
\* answered with a page, the loop issues exactly k + 1 GETs, with the
\* offsets 0, 5, ..., k * 5 in that order
C3_PageCount ==
    (/\ LoopOver
     /\ offsetArg = NoneArg
     /\ limitArg.tag = "int"
     /\ limitArg.v % max_entries_per_request # 0
     /\ AllOk) =>
        /\ Len(requests) = (limitArg.v \div max_entries_per_request) + 1
        /\ \A i \in 1..Len(requests) :
              requests[i].offset = (i - 1) * max_entries_per_request

\* limit 11: three GETs at the offsets 0, 5 and 10
C3_Witness ==
    /\ pc = "done"
    /\ outcome = "returned"
    /\ offsetArg = NoneArg
    /\ limitArg = IntArg(11)
    /\ AllOk
    /\ Len(requests) = 3
    /\ requests[3].offset = 10

\* C4: with the default offset and a limit of at most 5, the call issues
\* exactly one GET
C4_OnePage ==
    (/\ pc = "done"
     /\ offsetArg = NoneArg
     /\ limitArg.tag = "int"
     /\ limitArg.v <= max_entries_per_request) =>
        Len(requests) = 1

RECURSIVE SumIndexLens(_)
SumIndexLens(pages) ==
    IF Len(pages) = 0 THEN 0
    ELSE Len(Head(pages).index) + SumIndexLens(Tail(pages))

\* C5: a single-entity query that collected pages with index lengths
\* l1..ln returns a TimeSeries whose index and every attribute's values
\* have length l1 + ... + ln
C5_ParallelArrays ==
    (pc = "done" /\ outcome = "returned" /\ fn \in SingleFns) =>
        /\ Len(result.index) = SumIndexLens(list_of_res)
        /\ Len(result.attributes) > 0
        /\ \A a \in 1..Len(result.attributes) :
              Len(result.attributes[a].values) = SumIndexLens(list_of_res)

\* three pages of 5, 1 and 5 samples merged into 11
C5_Witness ==
    /\ pc = "done"
    /\ outcome = "returned"
    /\ fn = "get_entity_by_id"
    /\ Len(list_of_res) = 3
    /\ Len(list_of_res[1].index) = 5
    /\ Len(list_of_res[2].index) = 1
    /\ Len(result.index) = 11
    /\ Len(result.attributes) = 2

\* the fragments of a by-type page
Frags(f, body) ==
    IF f \in {"get_entity_by_type", "get_entity_attr_by_type"}
      THEN body.entities
      ELSE body.values

RECURSIVE Concat(_)
Concat(ss) == IF Len(ss) = 0 THEN <<>> ELSE Head(ss) \o Concat(Tail(ss))

Count(s, t) == Cardinality({i \in 1..Len(s) : s[i] = t})

\* the timestamps of the samples in one page body of query function f
PageIndex(f, body) ==
    IF f = "get_entities" THEN [i \in 1..Len(body) |-> body[i].index]
    ELSE IF f \in SingleFns THEN body.index
    ELSE Concat([j \in 1..Len(Frags(f, body)) |-> Frags(f, body)[j].index])

\* the timestamps of the samples in the value query function f returned
ResultIndex(f, r) ==
    IF f = "get_entities" THEN [i \in 1..Len(r) |-> r[i].index]
    ELSE IF f \in SingleFns THEN r.index
    ELSE Concat([j \in 1..Len(r) |-> r[j].index])

\* the entity ids a by-type page lists, in its order
PageIds(f, body) ==
    [j \in 1..Len(Frags(f, body)) |-> Frags(f, body)[j].entityId]

\* every page lists the entities of the first page, in its order
SameOrder(f, pages) ==
    \A k \in 1..Len(pages) : PageIds(f, pages[k]) = PageIds(f, pages[1])

\* C6: every sample of every collected page is in the returned value
\* exactly once, whatever the query function (for a by-type query: when
\* the pages list the same entities in the same order)
C6_NoLossNoDup ==
    (/\ pc = "done"
     /\ outcome = "returned"
     /\ fn \in TypeFns => SameOrder(fn, list_of_res)) =>
        \A k \in 1..Len(list_of_res) :
            \A t \in Range(PageIndex(fn, list_of_res[k])) :
                Count(ResultIndex(fn, result), t) = 1

\* the index entries the pages hold at fragment position i, in page order
RECURSIVE FragColumn(_, _, _)
FragColumn(f, pages, i) ==
    IF Len(pages) = 0 THEN <<>>
    ELSE (IF i <= Len(Frags(f, Head(pages)))
            THEN Frags(f, Head(pages))[i].index
            ELSE <<>>) \o FragColumn(f, Tail(pages), i)

\* the timestamps the pages hold for entity e
EntitySamples(f, pages, e) ==
    UNION {Range(Frags(f, pages[k])[j].index) :
             <<k, j>> \in {kj \in (1..Len(pages)) \X (1..3) :
                 /\ kj[2] <= Len(Frags(f, pages[kj[1]]))
                 /\ Frags(f, pages[kj[1]])[kj[2]].entityId = e}}

\* C7: a by-type query returns one TimeSeries per fragment of the first
\* page, in that order; TimeSeries i holds the fragments at position i of
\* all pages in page order, values aligned with the index; when all pages
\* list the same entities in the same order, TimeSeries i holds exactly
\* the samples of its own entity
C7_PositionalMerge ==
    (pc = "done" /\ outcome = "returned" /\ fn \in TypeFns) =>
        /\ Len(result) = Len(Frags(fn, list_of_res[1]))
        /\ \A i \in 1..Len(result) :
              /\ result[i].entityId = PageIds(fn, list_of_res[1])[i]
              /\ result[i].index = FragColumn(fn, list_of_res, i)
              /\ Len(result[i].attributes) > 0
              /\ \A a \in 1..Len(result[i].attributes) :
                    result[i].attributes[a].values =
                        ValuesOf(a, result[i].index)
              /\ SameOrder(fn, list_of_res) =>
                    Range(result[i].index) =
                        EntitySamples(fn, list_of_res, result[i].entityId)

\* two pages listing [E1, E2], merged into two series of combined length
C7_Witness ==
    /\ pc = "done"
    /\ outcome = "returned"
    /\ fn = "get_entity_by_type"
    /\ Len(list_of_res) = 2
    /\ PageIds(fn, list_of_res[1]) = <<"E1", "E2">>
    /\ PageIds(fn, list_of_res[2]) = <<"E1", "E2">>
    /\ Len(result[2].index) = 4

\* the last GET failed with a failure that is not the sentinel
FatalLast == Len(log) > 0 /\ ~IsOk(Last(log)) /\ ~SentinelLast

\* page 1 lists [E1, E2] and page 2 lists [E2, E1]
Reordered ==
    /\ fn \in TypeFns
    /\ Len(list_of_res) >= 2
    /\ PageIds(fn, list_of_res[1]) = <<"E1", "E2">>
    /\ PageIds(fn, list_of_res[2]) = <<"E2", "E1">>

\* C8: when page 2 lists the entities of page 1 in the other order, the
\* merge raises nothing, and page 2's samples of E2 are in the series of
\* E1 and its samples of E1 in the series of E2
C8_ReorderedMerge ==
    (pc = "done" /\ ~FatalLast /\ Reordered) =>
        /\ outcome = "returned"
        /\ result[1].entityId = "E1"
        /\ result[2].entityId = "E2"
        /\ Range(Frags(fn, list_of_res[2])[1].index)
              \subseteq Range(result[1].index)
        /\ Range(Frags(fn, list_of_res[2])[2].index)
              \subseteq Range(result[2].index)

\* a reordered second page with samples, merged and returned
C8_Witness ==
    /\ pc = "done"
    /\ outcome = "returned"
    /\ Reordered
    /\ Len(Frags(fn, list_of_res[2])[1].index) > 0
    /\ Len(result[1].index) > Len(Frags(fn, list_of_res[1])[1].index)

RECURSIVE TotalResults(_, _)
TotalResults(f, pages) ==
    IF Len(pages) = 0 THEN 0
    ELSE Len(PageIndex(f, Head(pages))) + TotalResults(f, Tail(pages))

\* C9: with a finite limit, the results of all collected pages together
\* are at most limit
C9_LimitIsMax ==
    (LoopOver /\ ~limit.inf) => TotalResults(fn, list_of_res) <= limit.n

\* C10: a call without a limit argument requests no page at an offset of
\* DefaultLimit or more
C10_DefaultLimit ==
    (pc # "idle" /\ limitArg = Omitted) =>
        \A i \in 1..Len(requests) : requests[i].offset < DefaultLimit

\* C11: get_entities returns the header entries of every page it fetched
C11_AllEntities ==
    (pc = "done" /\ outcome = "returned" /\ fn = "get_entities") =>
        \A k \in 1..Len(list_of_res) :
            \A i \in 1..Len(list_of_res[k]) :
                \E j \in 1..Len(result) : result[j] = list_of_res[k][i]

C19_TransportErrorPropagates ==
    (pc = "done" /\ FatalLast) =>
        exc = (IF Last(log).kind = "http" THEN "HTTPError"
                                          ELSE "ConnectionError")

\* ------------------------------------------------------ post_subscription
\* its optional string arguments, in the order the code tests them, and
\* the params key each one is sent under
SubArgs == <<"entity_type", "entity_id", "id_pattern", "attributes",
             "observed_attributes", "notified_attributes",
             "time_index_attribute">>
SubKeys == <<"entityType", "entityId", "idPattern", "attributes",
             "observedAttributes", "notifiedAttributes",
             "timeIndexAttribute">>
ThrottlingArgs ==
    {NoneArg} \cup {IntArg(n) : n \in (0 - MaxThrottling)..MaxThrottling}

\* Python's truth value of an optional integer: None and 0 are false
Truthy(t) == t.tag = "int" /\ t.v # 0

\* if throttling: if throttling < 1: raise TypeError
ThrottlingRejected(t) == Truthy(t) /\ t.v < 1

\* the params keys set by the tests numbered 1..upto
SubParamsUpTo(given, upto) ==
    {"orionUrl", "quantumleapUrl"} \cup
    {SubKeys[i] : i \in {j \in 1..upto : SubArgs[j] \in given}}

\* post_subscription up to its POST: params is built argument by
\* argument; a rejected throttling raises before the POST is issued
post_subscription ==
    /\ sub_pc = "idle"
    /\ \E given \in SUBSET Range(SubArgs), t \in ThrottlingArgs :
          /\ sub_given' = given
          /\ throttling' = t
          /\ IF ThrottlingRejected(t)
               THEN /\ sub_params' = SubParamsUpTo(given, 6)
                    /\ sub_exc' = "TypeError"
                    /\ sub_posts' = 0
                    /\ sub_pc' = "done"
               ELSE /\ sub_params' = SubParamsUpTo(given, 7) \cup
                           (IF Truthy(t) THEN {"throttling"} ELSE {})
                    /\ sub_exc' = "none"
                    /\ sub_posts' = 1
                    /\ sub_pc' = "sent"
    /\ UNCHANGED <<qvars, sqvars>>

\* the answer to the POST: res.ok, an error status raised by
\* raise_for_status, or a failure of the POST itself; both are re-raised
SubRespond ==
    /\ sub_pc = "sent"
    /\ \E kind \in {"ok", "http", "network"} :
          sub_exc' = CASE kind = "ok" -> "none"
                       [] kind = "http" -> "HTTPError"
                       [] kind = "network" -> "ConnectionError"
    /\ sub_pc' = "done"
    /\ UNCHANGED <<throttling, sub_given, sub_params, sub_posts>>
    /\ UNCHANGED <<qvars, sqvars>>

NextSub ==
    \/ post_subscription
    \/ SubRespond

SpecSub == Init /\ [][NextSub]_vars

\* C18: post_subscription with an integer throttling that is not positive
\* raises locally and issues no POST
C18_InvalidThrottling ==
    (sub_pc # "idle" /\ throttling.tag = "int" /\ throttling.v <= 0) =>
        /\ sub_pc = "done"
        /\ sub_exc = "TypeError"
        /\ sub_posts = 0

\* ------------------------------------------- the page loop, run endlessly
\* SpecLive follows the same call against a service that never runs out
\* of pages.  Only whether the loop ends is of interest, so what grows
\* without bound in an endless run is folded: the histories keep their
\* last MaxPages entries, and under an infinite limit (where the loop
\* condition does not depend on the offset) the offset stops MaxPages
\* pages after the one the call started from.
Window(s) == IF Len(s) > MaxPages THEN Tail(s) ELSE s
OffsetCap(start) == start + MaxPages * max_entries_per_request
FoldOffset(o, l, start) ==
    IF l.inf /\ o > OffsetCap(start) THEN OffsetCap(start) ELSE o

\* an empty page of the endpoint of query function f
EmptyPage(f) ==
    IF f = "get_entities" THEN EntitiesBody(0, 0)
    ELSE IF f \in SingleFns THEN SingleBody(f, 0, 0)
    ELSE TypeBody(f, 0, 0, <<"E1">>)

\* the loop condition holds: params['offset'] = offset; self.get(...)
RequestLive ==
    /\ pc = "loop"
    /\ LoopCond(offset, limit)
    /\ params' = SetOffset(params, offset)
    /\ requests' = Window(Append(requests, params'))
    /\ pc' = "sent"
    /\ UNCHANGED <<log, fn, kwargs, limitArg, offsetArg, limit, offset, list_of_res,
                   resp, served, outcome, exc, result>>
    /\ UNCHANGED <<subvars, sqvars>>

\* the service answers the outstanding GET with one more page
RespondPageAgain ==
    /\ pc = "sent"
    /\ resp' = [kind |-> "ok", status |-> 200, error |-> None,
                body |-> EmptyPage(fn)]
    /\ log' = Window(Append(log, resp'))
    /\ pc' = "recv"
    /\ UNCHANGED <<fn, kwargs, limitArg, offsetArg, limit, offset, params,
                   list_of_res, requests, served, outcome, exc, result>>
    /\ UNCHANGED <<subvars, sqvars>>

\* res.ok: the body is appended and the offset advances
AppendPageLive ==
    /\ pc = "recv"
    /\ resp.kind = "ok"
    /\ list_of_res' = Window(Append(list_of_res, resp.body))
    /\ offset' = FoldOffset(NextOffset(offset), limit, NormOffset(offsetArg))
    /\ resp' = NoResp
    /\ pc' = "loop"
    /\ UNCHANGED <<log, fn, kwargs, limitArg, offsetArg, limit, params,
                   requests, served, outcome, exc, result>>
    /\ UNCHANGED <<subvars, sqvars>>

NextLive ==
    \/ Call
    \/ RequestLive
    \/ LoopExit
    \/ RespondPageAgain
    \/ RespondHttpError
    \/ RespondNetworkError
    \/ AppendPageLive
    \/ HandleHttpError
    \/ HandleNetworkError
    \/ Return
    \/ RaiseIndexError

\* the code runs on and the service answers every GET
SpecLive == Init /\ [][NextLive]_vars /\ WF_vars(NextLive)

RECURSIVE Flat(_)
Flat(chars) == IF chars = <<>> THEN "" ELSE chars[1] \o Flat(Tail(chars))

\* class Operator(str, Enum): the members and their values
OperatorValue ==
    [EQUAL |-> "==", UNEQUAL |-> "!=", GREATER_THAN |-> ">",
     LESS_THAN |-> "<", GREATER_OR_EQUAL |-> ">=", LESS_OR_EQUAL |-> "<=",
     MATCH_PATTERN |-> "~="]
OperatorNames == DOMAIN OperatorValue

\* an operator argument: a member of Operator, or a plain string
Member(name) == [member |-> TRUE, name |-> name, sym |-> OperatorValue[name]]
Sym(str) == [member |-> FALSE, name |-> "", sym |-> str]
Operator == {Member(n) : n \in OperatorNames}

\* a right-hand side: str, int, float (of integral value), list of str, None
StrRhs(chars) == [kind |-> "str", s |-> chars, n |-> 0, l |-> <<>>]
IntRhs(n) == [kind |-> "int", s |-> <<>>, n |-> n, l |-> <<>>]
FloatRhs(n) == [kind |-> "float", s |-> <<>>, n |-> n, l |-> <<>>]
ListRhs(l) == [kind |-> "list", s |-> <<>>, n |-> 0, l |-> l]
NoneRhs == [kind |-> "None", s |-> <<>>, n |-> 0, l |-> <<>>]

\* == of two str values, one or both of which may be Operator members:
\* Operator mixes in str, so a member equals its value
OpEq(a, b) == a.sym = b.sym

\* `operator in list(Operator)`
InOperators(op) == \E m \in Operator : OpEq(op, m)

\* the operators excused from the float() test
ExemptOperators_NoPattern == {Member("EQUAL"), Member("UNEQUAL")}
ExemptOperators ==
    {Member("EQUAL"), Member("UNEQUAL"), Member("MATCH_PATTERN")}

\* ---- float(str): strip, sign, inf/nan or a decimal literal
Digits == {"0", "1", "2", "3", "4", "5", "6", "7", "8", "9"}
IsDigit(c) == c \in Digits

RECURSIVE LStrip(_)
LStrip(t) == IF t # <<>> /\ t[1] = " " THEN LStrip(Tail(t)) ELSE t
RECURSIVE RStrip(_)
RStrip(t) ==
    IF t # <<>> /\ t[Len(t)] = " " THEN RStrip(SubSeq(t, 1, Len(t) - 1))
    ELSE t
Strip(t) == RStrip(LStrip(t))

Lower(t) ==
    [k \in 1..Len(t) |->
        CASE t[k] = "I" -> "i" [] t[k] = "N" -> "n" [] t[k] = "F" -> "f"
          [] t[k] = "T" -> "t" [] t[k] = "Y" -> "y" [] t[k] = "A" -> "a"
          [] OTHER -> t[k]]

SpecialFloats ==
    {<<"i", "n", "f">>, <<"i", "n", "f", "i", "n", "i", "t", "y">>,
     <<"n", "a", "n">>}

\* the position after the digits (single underscores between them
\* allowed) that start at position i; i itself when there are none
RECURSIVE SkipDigits(_, _)
SkipDigits(t, i) ==
    IF i <= Len(t) /\ IsDigit(t[i])
    THEN IF i + 2 <= Len(t) /\ t[i + 1] = "_" /\ IsDigit(t[i + 2])
         THEN SkipDigits(t, i + 2)
         ELSE SkipDigits(t, i + 1)
    ELSE i

SkipSign(t, i) == IF i <= Len(t) /\ t[i] \in {"+", "-"} THEN i + 1 ELSE i

\* float(chars) returns a value (TRUE) or raises ValueError (FALSE)
FloatOfStr(chars) ==
    LET t == Strip(chars)
        a == SkipSign(t, 1)
        b == SkipDigits(t, a)
        c == IF b <= Len(t) /\ t[b] = "." THEN SkipDigits(t, b + 1) ELSE b
        hasDigits == b > a \/ (b <= Len(t) /\ t[b] = "." /\ c > b + 1)
        e == SkipSign(t, c + 1)
        d == IF c <= Len(t) /\ t[c] \in {"e", "E"}
             THEN IF SkipDigits(t, e) > e THEN SkipDigits(t, e) ELSE 0
             ELSE c
    IN  \/ Lower(SubSeq(t, a, Len(t))) \in SpecialFloats
        \/ hasDigits /\ d = Len(t) + 1

\* the exception float(right_hand_side) raises, "none" when it returns
float(rhs) ==
    CASE rhs.kind = "str" -> IF FloatOfStr(rhs.s) THEN "none" ELSE "ValueError"
      [] rhs.kind \in {"int", "float"} -> "none"
      [] OTHER -> "TypeError"

\* ---- class Statement(tuple)
NoStatement == [lhs |-> "", op |-> Sym(""), rhs |-> NoneRhs]
NoValue == [kind |-> "None", stmt |-> NoStatement, str |-> ""]
StatementResult(st) == [kind |-> "Statement", stmt |-> st, str |-> ""]
StrResult(str) == [kind |-> "str", stmt |-> NoStatement, str |-> str]

\* Statement.__new__: the exception it raises and the tuple it returns
Statement(lhs, op, rhs) ==
    IF ~InOperators(op)
    THEN [exc |-> "AssertionError", value |-> NoStatement]
    ELSE IF (~\E x \in ExemptOperators : OpEq(op, x)) /\ float(rhs) # "none"
    THEN [exc |-> float(rhs), value |-> NoStatement]
    ELSE [exc |-> "none", value |-> [lhs |-> lhs, op |-> op, rhs |-> rhs]]

\* str(n) of an int
RECURSIVE StrNat(_)
StrNat(n) ==
    LET digit == <<"0", "1", "2", "3", "4", "5", "6", "7", "8", "9">>
    IN  IF n < 10 THEN digit[n + 1]
        ELSE StrNat(n \div 10) \o digit[(n % 10) + 1]
StrInt(n) == IF n < 0 THEN "-" \o StrNat(0 - n) ELSE StrNat(n)

\* repr of a list of str: ['x', 'y']
RECURSIVE ReprItems(_)
ReprItems(l) ==
    IF l = <<>> THEN ""
    ELSE "'" \o Flat(l[1]) \o "'"
         \o (IF Len(l) > 1 THEN ", " ELSE "") \o ReprItems(Tail(l))

\* str(item) of one item of the tuple
StrOperator(op) == IF op.member THEN "Operator." \o op.name ELSE op.sym
StrRhsValue(rhs) ==
    CASE rhs.kind = "str" -> Flat(rhs.s)
      [] rhs.kind = "int" -> StrInt(rhs.n)
      [] rhs.kind = "float" -> StrInt(rhs.n) \o ".0"
      [] rhs.kind = "list" -> "[" \o ReprItems(rhs.l) \o "]"
      [] OTHER -> "None"

\* Statement.__str__
Statement___str__(st) == st.lhs \o StrOperator(st.op) \o StrRhsValue(st.rhs)

\* the arguments the model tries
LeftHandSides == {"a", "b"}
OperatorArgs ==
    Operator \cup {Sym(OperatorValue[n]) : n \in OperatorNames}
             \cup {Sym("="), Sym("")}
RhsStrings ==
    {
       <<"4", "2">>,
       <<"w", "a", "r", "m">>,
       <<"4", ".", "2">>,
       <<"1", ".", ".", "2">>,
       <<>>,
       <<" ", "7", " ">>,
       <<"1", "e", "3">>,
       <<"-", "1">>,
       <<"1", "_", "0">>,
       <<"1", "_">>,
       <<"n", "a", "n">>,
       <<".">>,
       <<"e", "5">>,
       <<"1">>
    }
RhsArgs ==
    {StrRhs(c) : c \in RhsStrings}
        \cup {IntRhs(1), IntRhs(42), IntRhs(-3), FloatRhs(1), NoneRhs,
              ListRhs(<<<<"x">>>>), ListRhs(<<<<"1">>, <<"2">>>>)}

\* Statement(lhs, op, rhs) is called
StatementCall ==
    /\ sq_call = "none"
    /\ \E lhs \in LeftHandSides, op \in OperatorArgs, rhs \in RhsArgs :
          LET r == Statement(lhs, op, rhs)
          IN  /\ sq_args' = [lhs |-> lhs, op |-> op, rhs |-> rhs]
              /\ sq_exc' = r.exc
              /\ sq_result' = IF r.exc = "none" THEN StatementResult(r.value)
                              ELSE NoValue
    /\ sq_call' = "Statement"
    /\ UNCHANGED sq_list
    /\ UNCHANGED <<qvars, subvars>>

\* ---- create_query
MaxStatements == 2

\* an element of the list: a Statement (built) or a raw 3-tuple
Raw(lhs, op, rhs) == [built |-> FALSE, lhs |-> lhs, op |-> op, rhs |-> rhs]
Built(st) == [built |-> TRUE, lhs |-> st.lhs, op |-> st.op, rhs |-> st.rhs]

\* a loop that validates the triples and leaves the list as it is
RECURSIVE Coerce_Untouched(_, _)
Coerce_Untouched(l, idx) ==
    IF idx > Len(l) THEN [exc |-> "none", list |-> l]
    ELSE IF l[idx].built THEN Coerce_Untouched(l, idx + 1)
    ELSE IF Statement(l[idx].lhs, l[idx].op, l[idx].rhs).exc # "none"
    THEN [exc |-> Statement(l[idx].lhs, l[idx].op, l[idx].rhs).exc,
          list |-> l]
    ELSE Coerce_Untouched(l, idx + 1)

\* the loop `for idx, statement in enumerate(statements)` from index idx
\* on: the exception that ends it and the list as the loop leaves it
RECURSIVE Coerce(_, _)
Coerce(l, idx) ==
    IF idx > Len(l) THEN [exc |-> "none", list |-> l]
    ELSE IF l[idx].built THEN Coerce(l, idx + 1)
    ELSE LET r == Statement(l[idx].lhs, l[idx].op, l[idx].rhs)
         IN  IF r.exc # "none" THEN [exc |-> r.exc, list |-> l]
             ELSE Coerce([l EXCEPT ![idx] = Built(r.value)], idx + 1)

\* == of two right-hand sides
RhsEq(x, y) ==
    CASE x.kind = "str" /\ y.kind = "str" -> x.s = y.s
      [] x.kind \in {"int", "float"} /\ y.kind \in {"int", "float"} ->
            x.n = y.n
      [] x.kind = "list" /\ y.kind = "list" -> x.l = y.l
      [] OTHER -> x.kind = "None" /\ y.kind = "None"

\* == of two Statements (tuple equality)
StatementEq(x, y) == x.lhs = y.lhs /\ OpEq(x.op, y.op) /\ RhsEq(x.rhs, y.rhs)

\* hash(statement) returns; the hash of a tuple hashes its items, and a
\* list has no hash
Hashable_Any(st) == TRUE
Hashable(st) == st.rhs.kind # "list"

\* set(statements): the positions of the elements the set keeps; an
\* element equal to one already in the set is not added
SetOf_NoDedup(l) == 1..Len(l)
SetOf(l) == {i \in 1..Len(l) : \A j \in 1..(i - 1) : ~StatementEq(l[j], l[i])}

\* the orders in which a set of positions can be iterated
Orders(S) ==
    {f \in [1..Cardinality(S) -> S] :
        \A i, j \in 1..Cardinality(S) : f[i] = f[j] => i = j}

\* a join that ends every statement with ';'
RECURSIVE Join_Terminated(_)
Join_Terminated(strs) ==
    IF strs = <<>> THEN ""
    ELSE strs[1] \o ";" \o Join_Terminated(Tail(strs))

\* ';'.join(strs)
RECURSIVE Join(_)
Join(strs) ==
    IF strs = <<>> THEN ""
    ELSE IF Len(strs) = 1 THEN strs[1]
    ELSE strs[1] \o ";" \o Join(Tail(strs))

\* the triples the model passes
Triples ==
    {Raw("a", Sym("=="), StrRhs(<<"1">>)),
     Raw("a", Sym("=="), IntRhs(1)),
     Raw("a", Sym("=="), FloatRhs(1)),
     Raw("b", Sym("!="), StrRhs(<<"2">>)),
     Raw("a", Member("EQUAL"), StrRhs(<<"1">>)),
     Raw("a", Sym(">"), StrRhs(<<"w", "a", "r", "m">>)),
     Raw("a", Sym("="), StrRhs(<<"1">>)),
     Raw("a", Sym("=="), ListRhs(<<<<"x">>>>)),
     Raw("a", Sym(">"), StrRhs(<<"4", "2">>))}
QueryItems ==
    Triples \cup {Built(Statement(t.lhs, t.op, t.rhs).value) :
                    t \in {u \in Triples :
                             Statement(u.lhs, u.op, u.rhs).exc = "none"}}
QueryLists == UNION {[1..n -> QueryItems] : n \in 0..MaxStatements}

\* create_query(statements) is called with a list or with one statement
create_query ==
    /\ sq_call = "none"
    /\ \E isList \in BOOLEAN :
       \E arg \in (IF isList THEN QueryLists
                   ELSE {<<i>> : i \in QueryItems}) :
          LET c == Coerce(arg, 1)
              unhashable == \E i \in 1..Len(arg) : ~Hashable(c.list[i])
          IN  /\ sq_args' = [isList |-> isList, statements |-> arg]
              /\ sq_list' = IF isList THEN c.list ELSE <<>>
              /\ IF c.exc # "none"
                 THEN sq_exc' = c.exc /\ sq_result' = NoValue
                 ELSE IF unhashable
                 THEN sq_exc' = "TypeError" /\ sq_result' = NoValue
                 ELSE /\ sq_exc' = "none"
                      /\ \E order \in Orders(SetOf(c.list)) :
                            sq_result' = StrResult(Join(
                                [k \in 1..Cardinality(SetOf(c.list)) |->
                                    Statement___str__(c.list[order[k]])]))
    /\ sq_call' = "create_query"
    /\ UNCHANGED <<qvars, subvars>>

\* the caller goes on to the next call
NextCall ==
    /\ sq_call # "none"
    /\ sq_call' = "none"
    /\ sq_args' = <<>>
    /\ sq_list' = <<>>
    /\ sq_result' = <<>>
    /\ sq_exc' = "none"
    /\ UNCHANGED <<qvars, subvars>>

NextSQL ==
    \/ StatementCall
    \/ create_query
    \/ NextCall

SpecSQL == Init /\ [][NextSQL]_vars

\* ---- what the statements say
\* the seven symbols, and the four that compare numbers
SevenSymbols == {"==", "!=", ">", "<", ">=", "<=", "~="}
NumericSymbols == {">", "<", ">=", "<="}

\* the grammar of a number written as text
DigitGroup(u) ==
    /\ Len(u) >= 1
    /\ IsDigit(u[1]) /\ IsDigit(u[Len(u)])
    /\ \A p \in 1..Len(u) : IsDigit(u[p]) \/ u[p] = "_"
    /\ \A p \in 1..(Len(u) - 1) : ~(u[p] = "_" /\ u[p + 1] = "_")
OptDigitGroup(u) == u = <<>> \/ DigitGroup(u)
Mantissa(u) ==
    \/ DigitGroup(u)
    \/ /\ Len(u) > 1
       /\ \E i \in 1..Len(u) :
             /\ u[i] = "."
             /\ OptDigitGroup(SubSeq(u, 1, i - 1))
             /\ OptDigitGroup(SubSeq(u, i + 1, Len(u)))
Unsigned(u) == IF u # <<>> /\ u[1] \in {"+", "-"} THEN Tail(u) ELSE u
Exponent(u) ==
    \/ u = <<>>
    \/ u[1] \in {"e", "E"} /\ DigitGroup(Unsigned(Tail(u)))
Blank(u) == \A p \in 1..Len(u) : u[p] = " "
NumberText(chars) ==
    \E a \in 0..Len(chars) : \E b \in a..Len(chars) :
        /\ Blank(SubSeq(chars, 1, a))
        /\ Blank(SubSeq(chars, b + 1, Len(chars)))
        /\ LET u == Unsigned(SubSeq(chars, a + 1, b))
           IN  \/ Lower(u) \in SpecialFloats
               \/ \E k \in 1..Len(u) :
                     Mantissa(SubSeq(u, 1, k))
                         /\ Exponent(SubSeq(u, k + 1, Len(u)))
ParsesAsNumber(rhs) ==
    \/ rhs.kind \in {"int", "float"}
    \/ rhs.kind = "str" /\ NumberText(rhs.s)

\* a triple the language accepts
ValidTriple(op, rhs) ==
    /\ op.sym \in SevenSymbols
    /\ op.sym \in NumericSymbols => ParsesAsNumber(rhs)

\* C14: Statement(lhs, op, rhs) returns a Statement exactly when op is one
\* of the seven symbols and, for >, <, >=, <=, rhs parses as a number;
\* when it raises, no Statement is produced
C14_StatementValidation ==
    sq_call = "Statement" =>
        /\ sq_exc = "none" <=> ValidTriple(sq_args.op, sq_args.rhs)
        /\ sq_exc = "none" =>
              /\ sq_result.kind = "Statement"
              /\ sq_result.stmt = [lhs |-> sq_args.lhs, op |-> sq_args.op,
                                   rhs |-> sq_args.rhs]
        /\ sq_exc # "none" => sq_result = NoValue

\* a pattern match takes text that is no number
C14_Witness ==
    /\ sq_call = "Statement"
    /\ sq_args.op = Sym("~=")
    /\ sq_args.rhs = StrRhs(<<"w", "a", "r", "m">>)
    /\ sq_exc = "none"

\* > refuses the same text
C14_WitnessRefused ==
    /\ sq_call = "Statement"
    /\ sq_args.op = Sym(">")
    /\ sq_args.rhs = StrRhs(<<"w", "a", "r", "m">>)
    /\ sq_exc = "ValueError"

\* C15: the serialization of a Statement is its left-hand side, then the
\* symbol of its operator, then its right-hand side, whether the operator
\* was given as a string or as a member of Operator
C15_Serialization ==
    (sq_call = "Statement" /\ sq_exc = "none") =>
        Statement___str__(sq_result.stmt)
            = sq_args.lhs \o sq_args.op.sym \o StrRhsValue(sq_args.rhs)

\* ---- what a query says
\* the triple an element of the list stands for is accepted
ValidItem(i) == ValidTriple(i.op, i.rhs)

\* the sets of positions that hold one triple of each class of
\* structurally equal triples of l
Representatives(l) ==
    {S \in SUBSET (1..Len(l)) :
        \A i \in 1..Len(l) :
            Cardinality({j \in S : StatementEq(l[i], l[j])}) = 1}

\* the query strings that list each distinct triple of l once
Queries(l) ==
    UNION {{Join([k \in 1..Cardinality(S) |-> Statement___str__(l[f[k]])]) :
               f \in Orders(S)} : S \in Representatives(l)}

\* the query strings of l in which the triple at position p is listed
QueriesWith(l, p) ==
    UNION {{Join([k \in 1..Cardinality(S) |-> Statement___str__(l[f[k]])]) :
               f \in Orders(S)} : S \in {R \in Representatives(l) : p \in R}}

ScalarRhs(i) == i.rhs.kind \in {"str", "int", "float"}

\* C16: given valid statements or triples (right-hand sides strings or
\* numbers), create_query returns the serializations of the distinct
\* triples, each once, joined by ';', in some order
C16_DistinctJoined ==
    (/\ sq_call = "create_query"
     /\ \A i \in 1..Len(sq_args.statements) :
           ValidItem(sq_args.statements[i]) /\ ScalarRhs(sq_args.statements[i]))
        => /\ sq_exc = "none"
           /\ sq_result.kind = "str"
           /\ sq_result.str \in Queries(sq_args.statements)

\* two equal triples collapsed to one statement
C16_Witness ==
    /\ sq_call = "create_query"
    /\ sq_args.statements = <<Raw("a", Sym("=="), StrRhs(<<"1">>)),
                              Raw("a", Sym("=="), StrRhs(<<"1">>))>>
    /\ sq_result = StrResult("a==1")

\* two different triples both listed, the second first
C16_WitnessBoth ==
    /\ sq_call = "create_query"
    /\ sq_args.statements = <<Raw("a", Sym("=="), StrRhs(<<"1">>)),
                              Raw("b", Sym("!="), StrRhs(<<"2">>))>>
    /\ sq_result = StrResult("b!=2;a==1")

\* the list holds a valid statement whose right-hand side is a list
ListRhsAt(l, p) ==
    /\ l[p].rhs.kind = "list"
    /\ l[p].op.sym \in {"==", "!=", "~="}

\* C17 as claimed: a Statement with ==, != or ~= and a list right-hand
\* side can be built, and create_query given such a statement returns a
\* query string that lists it
C17_ListRhsQueried ==
    /\ (/\ sq_call = "Statement"
        /\ sq_args.rhs.kind = "list"
        /\ sq_args.op.sym \in {"==", "!=", "~="})
          => sq_exc = "none" /\ sq_result.kind = "Statement"
    /\ (/\ sq_call = "create_query"
        /\ \A i \in 1..Len(sq_args.statements) :
              ValidItem(sq_args.statements[i]))
          => \A p \in 1..Len(sq_args.statements) :
                ListRhsAt(sq_args.statements, p) =>
                    /\ sq_exc = "none"
                    /\ sq_result.kind = "str"
                    /\ sq_result.str \in QueriesWith(sq_args.statements, p)

\* C17: a Statement with ==, != or ~= and a list right-hand side can be
\* built, but create_query given such a statement (among valid ones)
\* raises TypeError and returns no query string
C17_ListRhsRefused ==
    /\ (/\ sq_call = "Statement"
        /\ sq_args.rhs.kind = "list"
        /\ sq_args.op.sym \in {"==", "!=", "~="})
          => sq_exc = "none" /\ sq_result.kind = "Statement"
    /\ (/\ sq_call = "create_query"
        /\ \A i \in 1..Len(sq_args.statements) :
              ValidItem(sq_args.statements[i])
        /\ \E p \in 1..Len(sq_args.statements) :
              ListRhsAt(sq_args.statements, p))
          => sq_exc = "TypeError" /\ sq_result = NoValue

\* a Statement built with a list right-hand side was passed in a list
C17_Witness ==
    /\ sq_call = "create_query"
    /\ sq_args.isList
    /\ Len(sq_args.statements) = 2
    /\ sq_args.statements[2] =
          Built([lhs |-> "a", op |-> Sym("=="), rhs |-> ListRhs(<<<<"x">>>>)])
    /\ ValidItem(sq_args.statements[1])
    /\ sq_exc = "TypeError"

\* ---- pages that lack a field
\* the page lacks a field a complete page of its shape has, in the page
\* itself or in one of its fragments
Lacks(f, body) ==
    LET full == IF f \in SingleFns THEN SingleBody(f, 0, 1)
                ELSE TypeBody(f, 0, 1, <<"E1">>)
        list == IF f \in {"get_entity_by_type", "get_entity_attr_by_type"}
                THEN "entities" ELSE "values"
    IN  \/ \E k \in PageFields \cap DOMAIN full : k \notin DOMAIN body
        \/ /\ f \in TypeFns
           /\ list \in DOMAIN body
           /\ \E i \in 1..Len(body[list]) :
                 \E k \in PageFields \cap DOMAIN full[list][1] :
                    k \notin DOMAIN body[list][i]

TransportErrors == {"HTTPError", "ConnectionError"}

\* C20: when a collected page lacks a field the query shape reads and the
\* call gets as far as merging the pages, it raises an error that is no
\* transport error and returns no result
C20_AssemblyError ==
    (/\ pc = "done"
     /\ fn # "get_entities"
     /\ ~FatalLast
     /\ \E k \in 1..Len(list_of_res) : Lacks(fn, list_of_res[k]))
        => /\ outcome = "raised"
           /\ exc \in {"TypeError", "ValidationError"}
           /\ exc \notin TransportErrors
           /\ result = NoResult

\* the second page of a by-type query came without its list of entities
C20_Witness ==
    /\ pc = "done"
    /\ fn = "get_entity_by_type"
    /\ Len(list_of_res) = 2
    /\ ~Lacks(fn, list_of_res[1])
    /\ "entities" \notin DOMAIN list_of_res[2]
    /\ exc = "TypeError"

\* a page of one attribute of one entity came without its values
C20_WitnessValidation ==
    /\ pc = "done"
    /\ fn = "get_entity_attr_by_id"
    /\ Len(list_of_res) = 1
    /\ "values" \notin DOMAIN list_of_res[1]
    /\ exc = "ValidationError"

\* ---- by-type pages of unequal length
\* every attribute of series ts has one value per index entry
Parallel(ts) ==
    \A a \in 1..Len(ts.attributes) :
        Len(ts.attributes[a].values) = Len(ts.index)

\* C21: every TimeSeries a by-type query returns has, for each attribute,
\* as many values as index entries, also when later pages hold fewer or
\* more fragments than the first page
C21_TypeParallelArrays ==
    (/\ pc = "done"
     /\ outcome = "returned"
     /\ fn \in TypeFns
     /\ \A k \in 1..Len(list_of_res) :
           \A j \in 1..Len(Frags(fn, list_of_res[k])) :
               Parallel([index |-> Frags(fn, list_of_res[k])[j].index,
                         attributes |->
                           IF "attributes" \in
                                DOMAIN Frags(fn, list_of_res[k])[j]
                           THEN Frags(fn, list_of_res[k])[j].attributes
                           ELSE <<[values |->
                                     Frags(fn, list_of_res[k])[j].values]>>]))
        => \A i \in 1..Len(result) :
              /\ Len(result[i].attributes) > 0
              /\ Parallel(result[i])

\* page 1 holds two fragments, page 2 one and page 3 three
C21_Witness ==
    /\ pc = "done"
    /\ outcome = "returned"
    /\ fn = "get_entity_attr_by_type"
    /\ Len(list_of_res) = 3
    /\ Len(Frags(fn, list_of_res[1])) = 2
    /\ Len(Frags(fn, list_of_res[2])) = 1
    /\ Len(Frags(fn, list_of_res[3])) = 3
    /\ Len(result) = 2
    /\ Len(result[1].index) > Len(result[2].index)

\* ---- the offsets requested
\* C22: the i-th GET of a call (counting from 0) carries offset
\* start + 5 * i, start being the caller's offset or 0 when it is unset;
\* so the offsets grow strictly and none is requested twice
C22_OffsetSequence ==
    /\ \A i \in 1..Len(requests) :
          requests[i].offset =
              (IF offsetArg.tag = "int" THEN offsetArg.v ELSE 0)
                  + (i - 1) * max_entries_per_request
    /\ \A i, j \in 1..Len(requests) :
          i < j => requests[i].offset < requests[j].offset

\* a call that started at offset 3 asked for offsets 3, 8 and 13
C22_Witness ==
    /\ offsetArg = IntArg(3)
    /\ Len(requests) = 3
    /\ requests[1].offset = 3
    /\ requests[2].offset = 8
    /\ requests[3].offset = 13

\* C23: whatever limit and offset the caller gives, the first page is
\* requested before the loop decides to stop
C23_FirstPageFetched ==
    LoopOver => Len(requests) >= 1 /\ Len(log) >= 1

\* C24: after at least one collected page, a failed GET whose status is
\* not 404 or whose error field is not 'Not Found' makes the call raise;
\* it does not end the page sequence
C24_OnlyNotFoundIsSentinel ==
    (/\ LoopOver
     /\ Len(list_of_res) >= 1
     /\ Last(log).kind = "http"
     /\ Last(log).status # 404 \/ Last(log).error # "Not Found")
        => /\ pc = "done"
           /\ outcome = "raised"
           /\ exc = "HTTPError"
           /\ result = NoResult

\* a 500 whose body says 'Not Found', after two pages
C24_Witness ==
    /\ pc = "done"
    /\ Len(list_of_res) = 2
    /\ Last(log).kind = "http"
    /\ Last(log).status = 500
    /\ Last(log).error = "Not Found"
    /\ outcome = "raised"

\* a 404 whose body says something else, after one page
C24_WitnessOtherError ==
    /\ pc = "done"
    /\ Len(list_of_res) = 1
    /\ Last(log).kind = "http"
    /\ Last(log).status = 404
    /\ Last(log).error = "Internal Server Error"
    /\ outcome = "raised"

\* ---- the parameters of the page requests
\* C25: every page request of a call carries the filter parameters the
\* caller supplied, and between two consecutive page requests only
\* 'offset' changes: every other parameter, 'limit' included, stays
C25_OnlyOffsetChanges ==
    /\ \A i \in 1..Len(requests) :
          Cardinality(DOMAIN requests[i]) =
              Cardinality(PassedNames(fn) \cap (kwargs \cup RequiredNames(fn)))
                  + 2
    /\ \A i \in 1..(Len(requests) - 1) :
          /\ DOMAIN requests[i] = DOMAIN requests[i + 1]
          /\ \A k \in (DOMAIN requests[i]) \ {"offset"} :
                requests[i][k] = requests[i + 1][k]
          /\ requests[i].offset # requests[i + 1].offset

\* the second page request of a by-type call that supplied every filter
C25_Witness ==
    /\ fn = "get_entity_values_by_type"
    /\ kwargs = KwargNames
    /\ Len(requests) = 2
    /\ Cardinality(DOMAIN requests[2]) = 15
    /\ requests[2].lastN = 3
    /\ requests[2].offset = max_entries_per_request

\* C26 as claimed: every page request carries 5 as its 'limit', whatever
\* limit the caller gave
C26_PageLimitIsMax ==
    \A i \in 1..Len(requests) : requests[i].limit = max_entries_per_request

\* C26: every page request of a call carries the same 'limit': 5 when the
\* caller's limit is unset or above 5, the caller's limit when it is 5 or
\* less; it never shrinks to what remains of the caller's limit
C26_PageLimitIsCapped ==
    \A i \in 1..Len(requests) :
        requests[i].limit =
            (IF limitArg.tag = "int" /\ limitArg.v <= max_entries_per_request
             THEN limitArg.v ELSE max_entries_per_request)

\* limit 11: the third request still asks for 5, not for the remaining 1
C26_Witness ==
    /\ limitArg = IntArg(11)
    /\ offsetArg = NoneArg
    /\ Len(requests) = 3
    /\ requests[3].offset = 10
    /\ requests[3].limit = 5

\* C27: when the caller of a by-type query supplies an aggregation scope,
\* every page request carries it under the name 'aggrScope'
C27_AggrScopeKey ==
    (fn \in TypeFns /\ "aggr_scope" \in kwargs) =>
        \A i \in 1..Len(requests) :
            /\ "aggrScope" \in DOMAIN requests[i]
            /\ requests[i]["aggrScope"] = KwargValue["aggr_scope"]

\* ---- single-entity pages that overlap
\* the values page body holds for the a-th attribute of the result
PageValues(f, body, a) ==
    IF f \in {"get_entity_by_id", "get_entity_values_by_id"}
    THEN body.attributes[a].values
    ELSE body.values

\* C28: the index a single-entity query returns is the collected pages'
\* index arrays one after the other in fetch order, and each attribute's
\* values are that attribute's values of the pages in the same order;
\* samples that pages repeat are repeated in the result
C28_Concatenation ==
    (pc = "done" /\ outcome = "returned" /\ fn \in SingleFns) =>
        /\ result.index =
              Concat([k \in 1..Len(list_of_res) |-> list_of_res[k].index])
        /\ \A a \in 1..Len(result.attributes) :
              result.attributes[a].values =
                  Concat([k \in 1..Len(list_of_res) |->
                             PageValues(fn, list_of_res[k], a)])

\* page 2 began with the last sample of page 1 and the result holds that
\* sample twice; page 3 followed on
C28_Witness ==
    /\ pc = "done"
    /\ outcome = "returned"
    /\ fn = "get_entity_values_by_id"
    /\ Len(list_of_res) = 3
    /\ list_of_res[1].index = <<1, 2, 3, 4, 5>>
    /\ list_of_res[2].index = <<5>>
    /\ list_of_res[3].index = <<6>>
    /\ result.index = <<1, 2, 3, 4, 5, 5, 6>>

\* ---- one request at a time
\* C29: at most one page request is outstanding, and every page request
\* but the last one of the call has been answered, with a success, before
\* the next one was issued
C29_OneAtATime ==
    /\ Len(log) <= Len(requests)
    /\ Len(requests) <= Len(log) + 1
    /\ (Len(requests) = Len(log) + 1) <=> (pc = "sent")
    /\ \A i \in 1..(Len(requests) - 1) : IsOk(log[i])

\* the third page request is out, the first two were answered
C29_Witness ==
    /\ pc = "sent"
    /\ Len(requests) = 3
    /\ Len(log) = 2
    /\ Len(list_of_res) = 2

\* ---- one statement, in a list or not
\* C30: create_query given one valid statement (a Statement or a raw
\* triple), in a one-element list or not in a list at all, returns that
\* statement's serialization, with no ';' before or after it; so both
\* ways of passing it give the same string
C30_SingleStatement ==
    (/\ sq_call = "create_query"
     /\ Len(sq_args.statements) = 1
     /\ ValidItem(sq_args.statements[1])
     /\ ScalarRhs(sq_args.statements[1]))
        => /\ sq_exc = "none"
           /\ sq_result.kind = "str"
           /\ sq_result.str = Statement___str__(sq_args.statements[1])
           /\ sq_result.str # Statement___str__(sq_args.statements[1]) \o ";"
           /\ sq_result.str # ";" \o Statement___str__(sq_args.statements[1])

\* a raw triple passed without a list
C30_Witness ==
    /\ sq_call = "create_query"
    /\ ~sq_args.isList
    /\ sq_args.statements = <<Raw("b", Sym("!="), StrRhs(<<"2">>))>>
    /\ sq_result = StrResult("b!=2")

\* the same triple passed in a list
C30_WitnessList ==
    /\ sq_call = "create_query"
    /\ sq_args.isList
    /\ sq_args.statements = <<Raw("b", Sym("!="), StrRhs(<<"2">>))>>
    /\ sq_result = StrResult("b!=2")

\* ---- the limit as an end offset
\* the offset the call starts from, and the limit it runs under when that
\* is finite
StartOffset == IF offsetArg.tag = "int" THEN offsetArg.v ELSE 0
FiniteLimit ==
    \/ limitArg.tag = "int"
    \/ limitArg.tag = "omitted" /\ fn = "get_entity_by_id"
EndOffset == IF limitArg.tag = "int" THEN limitArg.v ELSE DefaultLimit

\* max(0, ceil((L - o) / 5))
PagesBetween(o, L) ==
    IF o >= L THEN 0
    ELSE (L - o + max_entries_per_request - 1) \div max_entries_per_request

\* C31: for a finite limit L and start offset o the loop issues at most
\* max(0, ceil((L - o) / 5)) page requests, exactly that many when every
\* one was answered with a page, and none when o >= L
C31_LimitIsEndOffset ==
    (pc # "idle" /\ FiniteLimit) =>
        /\ Len(requests) <= PagesBetween(StartOffset, EndOffset)
        /\ (LoopOver /\ AllOk) =>
              Len(requests) = PagesBetween(StartOffset, EndOffset)
        /\ StartOffset >= EndOffset => Len(requests) = 0

\* limit 11 from offset 3: two pages (offsets 3 and 8), not three
C31_Witness ==
    /\ pc = "done"
    /\ outcome = "returned"
    /\ limitArg = IntArg(11)
    /\ offsetArg = IntArg(3)
    /\ AllOk
    /\ Len(requests) = 2
    /\ requests[2].offset = 8

\* C32: a query function returns only if its loop collected a page; when
\* the start offset is not below the limit no page is requested and the
\* call raises IndexError and returns nothing, whichever of the nine
\* functions it is
C32_NoPageIsIndexError ==
    /\ (pc = "done" /\ outcome = "returned") => Len(list_of_res) >= 1
    /\ (pc = "done" /\ limitArg.tag = "int" /\ StartOffset >= limitArg.v) =>
          /\ Len(requests) = 0
          /\ outcome = "raised"
          /\ exc = "IndexError"
          /\ result = NoResult

\* get_entities with limit 3 from offset 3
C32_Witness ==
    /\ pc = "done"
    /\ fn = "get_entities"
    /\ limitArg = IntArg(3)
    /\ offsetArg = IntArg(3)
    /\ exc = "IndexError"

\* ---- the loop's bookkeeping
\* C36: whenever the loop condition is evaluated, and once the loop is
\* over, offset is start + 5 * (pages collected) and the pages collected
\* are as many as the GETs answered with a page; a failed GET adds no page
\* and leaves the offset
C36_LoopInvariant ==
    (pc \in {"loop", "sent", "built", "done"}) =>
        /\ offset = StartOffset + max_entries_per_request * Len(list_of_res)
        /\ Len(list_of_res) = Len(SelectSeq(log, IsOk))
        /\ list_of_res = OkBodies

\* the loop condition is evaluated after two pages from offset 3
C36_Witness ==
    /\ pc = "loop"
    /\ offsetArg = IntArg(3)
    /\ Len(list_of_res) = 2
    /\ offset = 13

\* the second GET failed for good: one page, offset 5
C36_WitnessFailure ==
    /\ pc = "done"
    /\ offsetArg = NoneArg
    /\ Len(log) = 2
    /\ FatalLast
    /\ Len(list_of_res) = 1
    /\ offset = 5

\* ---- by-type pages with fewer or more fragments
\* the number of samples the pages hold at fragment position i
RECURSIVE PositionSamples(_, _, _)
PositionSamples(f, pages, i) ==
    IF Len(pages) = 0 THEN 0
    ELSE (IF i <= Len(Frags(f, Head(pages)))
            THEN Len(Frags(f, Head(pages))[i].index) ELSE 0)
         + PositionSamples(f, Tail(pages), i)

\* the number of samples the pages hold at positions the first page lacks
RECURSIVE SurplusSamples(_, _, _)
SurplusSamples(f, pages, first) ==
    IF Len(pages) = 0 THEN 0
    ELSE Len(Concat([j \in 1..Len(Frags(f, Head(pages))) |->
                IF j > first THEN Frags(f, Head(pages))[j].index ELSE <<>>]))
         + SurplusSamples(f, Tail(pages), first)

\* C33: a by-type query whose page loop ended without a fatal failure
\* returns, without an error, as many TimeSeries as the first page has
\* fragments, in the first page's order; a later page with fewer fragments
\* adds nothing to the series it has no fragment for, and the fragments a
\* later page holds beyond the first page's count are in no series
C33_FirstPageFixesShape ==
    (pc = "done" /\ fn \in TypeFns /\ Len(list_of_res) >= 1 /\ ~FatalLast) =>
        /\ outcome = "returned"
        /\ exc = "none"
        /\ PageIds(fn, list_of_res[1]) =
              [i \in 1..Len(result) |-> result[i].entityId]
        /\ \A i \in 1..Len(result) :
              Len(result[i].index) = PositionSamples(fn, list_of_res, i)
        /\ Len(ResultIndex(fn, result))
              + SurplusSamples(fn, list_of_res, Len(result))
              = TotalResults(fn, list_of_res)

\* page 1 lists E1 and E2, page 2 only E1, page 3 E1, E2 and E3: the
\* series of E2 got nothing from page 2 and there is no series of E3
C33_Witness ==
    /\ pc = "done"
    /\ outcome = "returned"
    /\ fn = "get_entity_by_type"
    /\ Len(list_of_res) = 3
    /\ PageIds(fn, list_of_res[1]) = <<"E1", "E2">>
    /\ PageIds(fn, list_of_res[2]) = <<"E1">>
    /\ PageIds(fn, list_of_res[3]) = <<"E1", "E2", "E3">>
    /\ Len(result) = 2
    /\ Len(result[2].index) < Len(result[1].index)
    /\ SurplusSamples(fn, list_of_res, 2) = 1

\* ---- statements that read alike
\* the sets of positions of l whose statements all read differently
DistinctTexts(l) ==
    {S \in SUBSET (1..Len(l)) :
        \A i, j \in S :
            Statement___str__(l[i]) = Statement___str__(l[j]) => i = j}

\* C34: given valid triples with string or number right-hand sides,
\* create_query returns a string in which no serialized statement occurs
\* twice
C34_NoStatementTwice ==
    (/\ sq_call = "create_query"
     /\ sq_exc = "none"
     /\ \A i \in 1..Len(sq_args.statements) :
           ValidItem(sq_args.statements[i]) /\ ScalarRhs(sq_args.statements[i]))
        => sq_result.str \in
              UNION {{Join([k \in 1..Cardinality(S) |->
                              Statement___str__(sq_args.statements[f[k]])]) :
                         f \in Orders(S)} :
                     S \in DistinctTexts(sq_args.statements)}

\* ---- the caller's list
\* the first position of l whose triple is refused, Len(l) + 1 if none is
FirstRefused(l) ==
    LET bad == {j \in 1..Len(l) : ~l[j].built /\ ~ValidItem(l[j])}
    IN  IF bad = {} THEN Len(l) + 1
        ELSE CHOOSE j \in bad : \A k \in bad : j <= k

\* C35: create_query leaves the caller's list with the same length; each
\* raw triple before the first refused one is replaced, in place, by the
\* Statement of the same three items, Statements stay as they are, and
\* the elements from the first refused triple on are untouched
C35_ListReplacedInPlace ==
    (sq_call = "create_query" /\ sq_args.isList) =>
        /\ Len(sq_list) = Len(sq_args.statements)
        /\ \A i \in 1..Len(sq_list) :
              IF i < FirstRefused(sq_args.statements)
              THEN sq_list[i] = [sq_args.statements[i] EXCEPT !.built = TRUE]
              ELSE sq_list[i] = sq_args.statements[i]
        /\ (FirstRefused(sq_args.statements) <= Len(sq_list)) <=>
              sq_exc \in {"AssertionError", "ValueError"}

\* the first triple was replaced, the second was refused and stayed raw
C35_Witness ==
    /\ sq_call = "create_query"
    /\ sq_args.isList
    /\ sq_args.statements = <<Raw("b", Sym("!="), StrRhs(<<"2">>)),
                              Raw("a", Sym(">"),
                                  StrRhs(<<"w", "a", "r", "m">>))>>
    /\ sq_list[1].built
    /\ ~sq_list[2].built
    /\ sq_exc = "ValueError"

\* ---- assembly after the page loop
\* the page loop of the call has come to its end: the condition of the
\* while is false, or the last GET was the end-of-data sentinel
LoopEnded == SentinelLast \/ ~LoopCond(offset, limit)

\* C37: while the page loop runs nothing is built, merged or raised, and a
\* call that ends otherwise than by a failed fetch ends after the loop has
\* come to its end, also when an early page lacks a field
C37_AssemblyAfterLoop ==
    /\ (pc \in {"loop", "sent", "recv"}) =>
          (outcome = "none" /\ exc = "none" /\ result = NoResult)
    /\ (pc = "done" /\ ~FatalLast) => LoopEnded

\* the first page lacks a field, and the two later pages were requested
\* before the assembly failed on it
C37_Witness ==
    /\ pc = "done"
    /\ fn = "get_entity_by_id"
    /\ limitArg = IntArg(11)
    /\ offsetArg = NoneArg
    /\ Len(requests) = 3
    /\ Len(list_of_res) = 3
    /\ Lacks(fn, list_of_res[1])
    /\ ~Lacks(fn, list_of_res[2])
    /\ exc = "ValidationError"

====
